---------------------------- MODULE Spec2Model ----------------------------
(***************************************************************************)
(* Model of src-tauri/src/commands/misc.rs: the update download pipeline   *)
(* (download_and_open_update_package) and the tool version report          *)
(* (get_tool_versions).                                                    *)
(*                                                                         *)
(* Text is a sequence of one-character strings, so that suffix tests,      *)
(* trimming, lowercasing and path building are computed, not assumed.      *)
(***************************************************************************)
EXTENDS Naturals, Integers, Sequences, FiniteSets, TLC

VARIABLES
    platform,     \* std::env::consts::OS / cfg!(target_os): fixed per build
    \* ---- Trust Gate taken alone (SpecGate)
    gateUrl,      \* the url argument under test
    gateResult,   \* "pending", then the outcome of the gate
    \* ---- download_and_open_update_package, one entry per running invocation
    pc,           \* position of the invocation in the handler
    url,          \* its url argument
    fileName,     \* its sanitized file name (file_name, line 114)
    file,         \* its open handle on the temp file: NoFile or [ino, off]
    body,         \* chunks it has received from the response stream so far
    flushed,      \* TRUE once file.flush() returned Ok and the file was dropped
    renamed,      \* TRUE once its rename of line 151 returned Ok
    result,       \* NoResult, or the value the command returned
    netCalls,     \* number of HTTP requests it has sent
    fsCreates,    \* number of directories / files it has created
    trigger,      \* installer / opener calls it has made, in order
    started,      \* number of invocations started so far
    fetched,      \* bodies of the fetches that were read to the end and flushed
    \* ---- the file system under std::env::temp_dir()
    dirExists,    \* the cache directory aicodewith-updates exists
    links,        \* path (inside the cache directory) -> inode
    data,         \* inode -> contents (sequence of chunks, 0 = hole)
    \* ---- get_tool_versions
    vpc,          \* position in get_tool_versions
    toolIdx,      \* index in tools of the tool of the current iteration
    searchPaths,  \* search_paths of the running scan_cli_version
    scanIdx,      \* index in search_paths of the directory the scan is at
    direct,       \* direct_result (line 242) of the current tool
    local,        \* (local_version, local_error) of the current tool
    localSrc,     \* where local comes from: "none", "direct" or "scan"
    invoked,      \* candidate directories whose executable the scan has invoked
    latest,       \* latest_version of the current tool
    regOutcome,   \* what the current tool's registry lookup met
    results,      \* the Vec<ToolVersion> under construction
    vresult,      \* NoResult, or the value get_tool_versions returned
    \* ---- scan_cli_version taken alone (SpecScan)
    scanEnv,      \* per candidate directory, what is found there
    scanOut,      \* NoResult, then the outcome of the scan
    \* ---- sanitize_download_file_name taken alone (SpecNames)
    nameRaw,      \* the raw file name
    nameOut,      \* the names returned so far, each pass sanitizing the last one
    \* ---- extract_version taken alone (SpecExtract)
    verRaw,       \* the raw output of a version probe
    verOut        \* NoResult, then the text extract_version returned

dlVars == <<pc, url, fileName, file, body, flushed, renamed, result, netCalls, fsCreates,
            trigger, started, fetched, dirExists, links, data>>
gateVars == <<gateUrl, gateResult>>
verVars == <<vpc, toolIdx, searchPaths, scanIdx, direct, local, localSrc, invoked, latest,
             regOutcome, results, vresult>>
scanVars == <<scanEnv, scanOut>>
pureVars == <<nameRaw, nameOut, verRaw, verOut>>
vars == <<platform, gateVars, dlVars, verVars, scanVars, pureVars>>

---------------------------------------------------------------------------
(* Text helpers                                                            *)

\* char::to_lowercase on the ASCII letters
ToLowerTable ==
    [A |-> "a", B |-> "b", C |-> "c", D |-> "d", E |-> "e", F |-> "f", G |-> "g",
     H |-> "h", I |-> "i", J |-> "j", K |-> "k", L |-> "l", M |-> "m", N |-> "n",
     O |-> "o", P |-> "p", Q |-> "q", R |-> "r", S |-> "s", T |-> "t", U |-> "u",
     V |-> "v", W |-> "w", X |-> "x", Y |-> "y", Z |-> "z"]

LowerChar(c) == IF c \in DOMAIN ToLowerTable THEN ToLowerTable[c] ELSE c

\* char::is_ascii_alphabetic
IsAsciiLetter(c) == \E k \in DOMAIN ToLowerTable : c = k \/ c = ToLowerTable[k]

\* str::to_lowercase
ToLowercase(s) == [i \in 1..Len(s) |-> LowerChar(s[i])]

\* str::ends_with
EndsWith(s, suffix) ==
    /\ Len(s) >= Len(suffix)
    /\ SubSeq(s, Len(s) - Len(suffix) + 1, Len(s)) = suffix

\* char::is_whitespace, on the characters of the model's alphabet
IsWhitespace(c) == c \in {" ", "\t", "\n"}

\* str::trim: strip leading and trailing whitespace
Trim(s) ==
    LET keep == {i \in 1..Len(s) : ~IsWhitespace(s[i])}
    IN  IF keep = {} THEN <<>>
        ELSE LET lo == CHOOSE i \in keep : \A j \in keep : i <= j
                 hi == CHOOSE i \in keep : \A j \in keep : j <= i
             IN  SubSeq(s, lo, hi)

\* Option::None
None == [none |-> TRUE]
\* Option::Some(v)
Some(v) == [some |-> v]
IsSome(o) == "some" \in DOMAIN o


---------------------------------------------------------------------------
(* Trust Gate: lines 95-112                                                *)

\* A url argument, as the parts url::Url::parse tells apart: the text before
\* the first ':' (empty when there is none), whether "//" follows, and the
\* host text.
SchemeHttp == <<"h", "t", "t", "p">>
SchemeHttps == <<"h", "t", "t", "p", "s">>
SchemeFtp == <<"f", "t", "p">>
SchemeFile == <<"f", "i", "l", "e">>
SchemeMailto == <<"m", "a", "i", "l", "t", "o">>
SchemeHttpsUpper == <<"H", "T", "T", "P", "S">>

\* url::Url::parse, the Err case
ParseErr == [err |-> "parse"]

\* url::Url::parse (line 95): a relative reference has no base and fails; the
\* scheme is lowercased; http, https and ftp need a non-empty host made of
\* domain characters, which is lowercased; a file url may have no host; any
\* other scheme has a host only after "//", kept as written.
ParseUrl(u) ==
    IF u.scheme = <<>> THEN ParseErr
    ELSE LET scheme == ToLowercase(u.scheme)
         IN  IF scheme \in {SchemeHttp, SchemeHttps, SchemeFtp}
             THEN IF u.host = <<>> \/ \E i \in 1..Len(u.host) : IsWhitespace(u.host[i])
                  THEN ParseErr
                  ELSE [scheme |-> scheme, host |-> Some(ToLowercase(u.host))]
             ELSE IF scheme = SchemeFile
             THEN [scheme |-> scheme,
                   host |-> IF u.authority /\ u.host # <<>>
                            THEN Some(ToLowercase(u.host)) ELSE None]
             ELSE [scheme |-> scheme,
                   host |-> IF u.authority /\ u.host # <<>>
                            THEN Some(u.host) ELSE None]

\* the three allow-listed suffixes of lines 104-106
SuffixCjjd19 == <<".", "c", "j", "j", "d", "1", "9", ".", "c", "o", "m">>
Suffix123pan == <<".", "1", "2", "3", "p", "a", "n", ".", "c", "o", "m">>
Suffix123865 == <<".", "1", "2", "3", "8", "6", "5", ".", "c", "o", "m">>

\* HostTrusted with the suffixes compared without their leading dot
HostTrustedSloppy(host) ==
    LET h == ToLowercase(host)
        bare(suffix) == SubSeq(suffix, 2, Len(suffix))
    IN  \/ EndsWith(h, bare(SuffixCjjd19))
        \/ EndsWith(h, bare(Suffix123pan))
        \/ EndsWith(h, bare(Suffix123865))

\* lines 103-106: host.to_lowercase() ends with one of the suffixes
HostTrusted(host) ==
    LET h == ToLowercase(host)
    IN  \/ EndsWith(h, SuffixCjjd19)
        \/ EndsWith(h, Suffix123pan)
        \/ EndsWith(h, Suffix123865)

\* Authorize without the host allow-list of lines 102-109
AuthorizeAnyHost(u) ==
    LET parsed == ParseUrl(u)
    IN  IF parsed = ParseErr THEN "invalid_url"
        ELSE IF parsed.scheme \notin {SchemeHttp, SchemeHttps} THEN "unsupported_scheme"
        ELSE IF IsSome(parsed.host) THEN "ok" ELSE "missing_host"

\* lines 95-112: the outcome of the checks made before anything else is done.
\* "invalid_url" is the "invalid download link" error of line 95,
\* "unsupported_scheme" the one of line 98, "untrusted_host" the one of line
\* 108 and "missing_host" the one of line 111.
Authorize(u) ==
    LET parsed == ParseUrl(u)
    IN  IF parsed = ParseErr THEN "invalid_url"
        ELSE IF parsed.scheme \notin {SchemeHttp, SchemeHttps} THEN "unsupported_scheme"
        ELSE IF IsSome(parsed.host)
             THEN IF ~HostTrusted(parsed.host.some) THEN "untrusted_host" ELSE "ok"
             ELSE "missing_host"

\* ---- inputs of the gate
HostCdn == <<"c", "d", "n">>
HostCdnUpper == <<"C", "D", "N">>
HostEvil == <<"e", "v", "i", "l">>
Dot == <<".">>
BaseCjjd19 == SubSeq(SuffixCjjd19, 2, Len(SuffixCjjd19))
Base123pan == SubSeq(Suffix123pan, 2, Len(Suffix123pan))
Base123865 == SubSeq(Suffix123865, 2, Len(Suffix123865))
BaseCjjd19Upper == <<"C", "J", "J", "D", "1", "9", ".", "C", "O", "M">>
BaseEvil == <<"e", "v", "i", "l", ".", "c", "o", "m">>

HostPrefixes == {<<>>, Dot, HostCdn \o Dot, HostCdnUpper \o Dot, HostEvil, <<" ">>}
HostBases == {BaseCjjd19, Base123pan, Base123865, BaseCjjd19Upper, BaseEvil}
HostTails == {<<>>, Dot, Dot \o BaseEvil}

GateHosts ==
    {<<>>} \cup {p \o b \o t : p \in HostPrefixes, b \in HostBases, t \in HostTails}

GateSchemes ==
    {<<>>, SchemeHttp, SchemeHttps, SchemeHttpsUpper, SchemeFtp, SchemeFile, SchemeMailto}

GateUrls == [scheme : GateSchemes, authority : BOOLEAN, host : GateHosts]

\* https://cdn.cjjd19.com/pkg.msi and https://evil.com/pkg.msi
UrlTrusted == [scheme |-> SchemeHttps, authority |-> TRUE, host |-> HostCdn \o SuffixCjjd19]
UrlEvil == [scheme |-> SchemeHttps, authority |-> TRUE, host |-> BaseEvil]

---------------------------------------------------------------------------
(* File names and paths: lines 45-66, 114-119, 159-162                     *)

Platforms == {"windows", "macos", "linux"}

\* fallback, line 46
FallbackName ==
    <<"a", "i", "c", "o", "d", "e", "w", "i", "t", "h", "-", "u", "p", "d", "a", "t", "e",
      ".", "b", "i", "n">>

\* the cap of line 64
NameCap == 120

\* std::path::is_separator of the build's platform
IsSeparator(os, c) == IF os = "windows" THEN c \in {"/", "\\"} ELSE c = "/"

\* Components drop trailing separators and trailing "." components.
RECURSIVE StripTrailing(_, _)
StripTrailing(os, s) ==
    IF s = <<>> THEN s
    ELSE IF IsSeparator(os, s[Len(s)]) THEN StripTrailing(os, SubSeq(s, 1, Len(s) - 1))
    ELSE IF Len(s) >= 2 /\ s[Len(s)] = "." /\ IsSeparator(os, s[Len(s) - 1])
         THEN StripTrailing(os, SubSeq(s, 1, Len(s) - 2))
    ELSE s

\* On Windows a leading drive letter and colon is a prefix component.
StripPrefix(os, s) ==
    IF os = "windows" /\ Len(s) >= 2 /\ s[2] = ":" /\ IsAsciiLetter(s[1])
    THEN SubSeq(s, 3, Len(s))
    ELSE s

\* Path::new(raw).file_name() (lines 47-48): the last component when it is a
\* normal one; None for an empty path, a root, "." and a path ending in "..".
PathFileName(os, raw) ==
    LET s == StripTrailing(os, StripPrefix(os, raw))
        seps == {i \in 1..Len(s) : IsSeparator(os, s[i])}
        last == IF seps = {} THEN 0 ELSE CHOOSE i \in seps : \A j \in seps : j <= i
        comp == SubSeq(s, last + 1, Len(s))
    IN  IF comp = <<>> \/ comp = <<".">> \/ comp = <<".", ".">> THEN None ELSE Some(comp)

\* the characters of line 55 without the question mark
ForbiddenCharsNoQuestion == {"/", "\\", ":", "*", "\"", "<", ">", "|"}

\* the characters replaced by '_' at line 55
ForbiddenChars == {"/", "\\", ":", "*", "?", "\"", "<", ">", "|"}

\* chars().take(n).collect()
Take(s, n) == SubSeq(s, 1, IF Len(s) < n THEN Len(s) ELSE n)

\* sanitize_download_file_name, lines 45-66
sanitize_download_file_name(os, raw) ==
    LET fn == PathFileName(os, raw)
        name == IF IsSome(fn) THEN fn.some ELSE FallbackName
        out == [i \in 1..Len(name) |-> IF name[i] \in ForbiddenChars THEN "_" ELSE name[i]]
        trimmed == Trim(out)
    IN  IF trimmed = <<>> THEN FallbackName ELSE Take(trimmed, NameCap)

PartialSuffix == <<".", "p", "a", "r", "t", "i", "a", "l">>

\* final_path, line 118: the path inside cache_dir is the file name itself
FinalPath(name) == name
\* temp_path, line 119: "{file_name}.partial"
TempPath(name) == name \o PartialSuffix

\* Path::extension (lines 159-161): the text after the last '.' of the file
\* name; None when there is no '.', or only a leading one.
PathExtension(name) ==
    LET dots == {i \in 1..Len(name) : name[i] = "."}
        last == IF dots = {} THEN 0 ELSE CHOOSE i \in dots : \A j \in dots : j <= i
    IN  IF name = <<".", ".">> \/ last <= 1 THEN None
        ELSE Some(SubSeq(name, last + 1, Len(name)))

ExtMsi == <<"m", "s", "i">>

\* IsWindowsMsi comparing the extension with == instead of eq_ignore_ascii_case
IsWindowsMsiCaseSensitive(os, name) ==
    /\ os = "windows"
    /\ LET ext == PathExtension(name)
       IN  IsSome(ext) /\ ext.some = ExtMsi

\* lines 157-163: the build is for Windows and the extension is msi, in any case
IsWindowsMsi(os, name) ==
    /\ os = "windows"
    /\ LET ext == PathExtension(name)
       IN  IsSome(ext) /\ ToLowercase(ext.some) = ExtMsi

---------------------------------------------------------------------------
(* download_and_open_update_package: lines 89-178                          *)

\* concurrent invocations of the command, invocations in all, chunks per body
NumProcs == 2
MaxInvocations == 2
MaxChunks == 2

Procs == 1..NumProcs

NoFile == [closed |-> TRUE]
NoResult == [pending |-> TRUE]
\* Ok(DownloadAndOpenResult { filePath })
OkResult(path) == [ok |-> TRUE, filePath |-> path]
\* Err(message): the message is named by the check that produced it
ErrResult(why) == [ok |-> FALSE, err |-> why]

\* the k-th chunk of the response body served to invocation slot p; 0 is a hole
Chunk(p, k) == 10 * p + k

\* url arguments of the download command
UrlFtp == [scheme |-> SchemeFtp, authority |-> TRUE, host |-> HostCdn \o SuffixCjjd19]
UrlRelative == [scheme |-> <<>>, authority |-> FALSE, host |-> HostCdn \o SuffixCjjd19]
DlUrls == {UrlTrusted, UrlEvil, UrlFtp, UrlRelative}

\* fileName arguments: "p.msi", "x/q.MSI" and the empty name
RawNames == {<<"p", ".", "m", "s", "i">>, <<"x", "/", "q", ".", "M", "S", "I">>, <<>>}

\* inodes that a path names or a handle holds open
LiveInodes(lk, fl) ==
    {lk[q] : q \in DOMAIN lk} \cup {fl[p].ino : p \in {r \in Procs : fl[r] # NoFile}}

\* an inode is freed when no path names it and no handle holds it
Reclaim(lk, fl, dt) == [i \in LiveInodes(lk, fl) \cap DOMAIN dt |-> dt[i]]

FreshInode == CHOOSE i \in 1..(Cardinality(DOMAIN data) + 1) : i \notin DOMAIN data

\* write at an offset: the gap past the end of the file, if any, reads as zeros
WriteAt(content, off, chunk) ==
    LET n == IF Len(content) > off + 1 THEN Len(content) ELSE off + 1
    IN  [i \in 1..n |-> IF i = off + 1 THEN chunk
                        ELSE IF i <= Len(content) THEN content[i] ELSE 0]

\* the download command touches nothing of the other commands
DownloadOnly == UNCHANGED <<platform, gateVars, verVars, scanVars, pureVars>>
\* get_tool_versions touches nothing of the other commands
VersionsOnly == UNCHANGED <<platform, gateVars, dlVars, scanVars, pureVars>>

\* the early return of a `?` or `return Err(..)`: the handle, if open, is dropped
Fail(p, why) ==
    /\ pc' = [pc EXCEPT ![p] = "done"]
    /\ result' = [result EXCEPT ![p] = ErrResult(why)]
    /\ file' = [file EXCEPT ![p] = NoFile]

\* lines 95-114: a new invocation; the gate runs before anything else
Invoke(p) ==
    /\ pc[p] = "idle"
    /\ started < MaxInvocations
    /\ started' = started + 1
    /\ \E u \in DlUrls, raw \in RawNames :
        /\ url' = [url EXCEPT ![p] = u]
        /\ fileName' = [fileName EXCEPT ![p] = sanitize_download_file_name(platform, raw)]
        /\ IF Authorize(u) = "ok"
           THEN /\ pc' = [pc EXCEPT ![p] = "mkdir"]
                /\ result' = [result EXCEPT ![p] = NoResult]
           ELSE /\ pc' = [pc EXCEPT ![p] = "done"]
                /\ result' = [result EXCEPT ![p] = ErrResult(Authorize(u))]
    /\ body' = [body EXCEPT ![p] = <<>>]
    /\ flushed' = [flushed EXCEPT ![p] = FALSE]
    /\ renamed' = [renamed EXCEPT ![p] = FALSE]
    /\ netCalls' = [netCalls EXCEPT ![p] = 0]
    /\ fsCreates' = [fsCreates EXCEPT ![p] = 0]
    /\ trigger' = [trigger EXCEPT ![p] = <<>>]
    /\ UNCHANGED <<file, fetched, dirExists, links, data>>
    /\ DownloadOnly

\* lines 115-116: create_dir_all succeeds on an existing directory
CreateCacheDir(p) ==
    /\ pc[p] = "mkdir"
    /\ \/ /\ dirExists' = TRUE
          /\ fsCreates' = [fsCreates EXCEPT ![p] = IF dirExists THEN @ ELSE @ + 1]
          /\ pc' = [pc EXCEPT ![p] = "client"]
          /\ UNCHANGED <<result, file>>
       \/ /\ ~dirExists
          /\ Fail(p, "create_dir")
          /\ UNCHANGED <<dirExists, fsCreates>>
    /\ UNCHANGED <<url, fileName, renamed, body, flushed, netCalls, trigger, started, fetched,
                   links, data>>
    /\ DownloadOnly

\* lines 121-124
BuildClient(p) ==
    /\ pc[p] = "client"
    /\ \/ /\ pc' = [pc EXCEPT ![p] = "send"]
          /\ UNCHANGED <<result, file>>
       \/ Fail(p, "client")
    /\ UNCHANGED <<url, fileName, renamed, body, flushed, netCalls, fsCreates, trigger,
                   started, fetched,
                   dirExists, links, data>>
    /\ DownloadOnly

\* lines 126-132: the request is sent; transport error, error status or response
SendRequest(p) ==
    /\ pc[p] = "send"
    /\ netCalls' = [netCalls EXCEPT ![p] = @ + 1]
    /\ \/ /\ pc' = [pc EXCEPT ![p] = "create"]
          /\ UNCHANGED <<result, file>>
       \/ Fail(p, "request")
       \/ Fail(p, "status")
    /\ UNCHANGED <<url, fileName, renamed, body, flushed, fsCreates, trigger, started, fetched,
                   dirExists, links, data>>
    /\ DownloadOnly

\* lines 134-136: File::create truncates the file the path names, or makes one
CreateTemp(p) ==
    /\ pc[p] = "create"
    /\ LET t == TempPath(fileName[p])
       IN  \/ /\ t \in DOMAIN links
              /\ file' = [file EXCEPT ![p] = [ino |-> links[t], off |-> 0]]
              /\ data' = [data EXCEPT ![links[t]] = <<>>]
              /\ pc' = [pc EXCEPT ![p] = "stream"]
              /\ UNCHANGED <<links, fsCreates, result>>
           \/ /\ t \notin DOMAIN links
              /\ file' = [file EXCEPT ![p] = [ino |-> FreshInode, off |-> 0]]
              /\ links' = [q \in DOMAIN links \cup {t} |->
                             IF q = t THEN FreshInode ELSE links[q]]
              /\ data' = [i \in DOMAIN data \cup {FreshInode} |->
                            IF i = FreshInode THEN <<>> ELSE data[i]]
              /\ fsCreates' = [fsCreates EXCEPT ![p] = @ + 1]
              /\ pc' = [pc EXCEPT ![p] = "stream"]
              /\ UNCHANGED result
           \/ /\ Fail(p, "create_file")
              /\ UNCHANGED <<links, data, fsCreates>>
    /\ UNCHANGED <<url, fileName, renamed, body, flushed, netCalls, trigger, started, fetched,
                   dirExists>>
    /\ DownloadOnly

\* lines 139-144: one turn of the loop: the next chunk is written at the
\* handle's offset, or the chunk is an error, or the write fails, or the
\* stream has ended
StreamChunk(p) ==
    /\ pc[p] = "stream"
    /\ \/ /\ Len(body[p]) < MaxChunks
          /\ LET c == Chunk(p, Len(body[p]) + 1)
                 f == file[p]
             IN  /\ body' = [body EXCEPT ![p] = Append(@, c)]
                 /\ \/ /\ data' = [data EXCEPT ![f.ino] = WriteAt(@, f.off, c)]
                       /\ file' = [file EXCEPT ![p] = [ino |-> f.ino, off |-> f.off + 1]]
                       /\ UNCHANGED <<pc, result>>
                    \/ /\ Fail(p, "write")
                       /\ data' = Reclaim(links, file', data)
          /\ UNCHANGED flushed
       \/ /\ Fail(p, "read")
          /\ data' = Reclaim(links, file', data)
          /\ UNCHANGED <<body, flushed>>
       \/ /\ pc' = [pc EXCEPT ![p] = "flush"]
          /\ UNCHANGED <<body, flushed, file, result, data>>
    /\ UNCHANGED <<url, fileName, renamed, netCalls, fsCreates, trigger, started, fetched,
                   dirExists, links>>
    /\ DownloadOnly

\* lines 146-149: flush, then drop(file)
FlushAndClose(p) ==
    /\ pc[p] = "flush"
    /\ \/ /\ flushed' = [flushed EXCEPT ![p] = TRUE]
          /\ fetched' = fetched \cup {body[p]}
          /\ file' = [file EXCEPT ![p] = NoFile]
          /\ pc' = [pc EXCEPT ![p] = "rename"]
          /\ UNCHANGED result
       \/ /\ Fail(p, "flush")
          /\ UNCHANGED <<flushed, fetched>>
    /\ data' = Reclaim(links, file', data)
    /\ UNCHANGED <<url, fileName, renamed, body, netCalls, fsCreates, trigger, started, dirExists,
                   links>>
    /\ DownloadOnly

\* lines 151-154: rename replaces the final path; when it fails the temp file
\* is removed, and the outcome of that removal is ignored
RenameToFinal(p) ==
    /\ pc[p] = "rename"
    /\ LET t == TempPath(fileName[p])
           f == FinalPath(fileName[p])
       IN  \/ /\ t \in DOMAIN links
              /\ links' = [q \in (DOMAIN links \ {t}) \cup {f} |->
                             IF q = f THEN links[t] ELSE links[q]]
              /\ pc' = [pc EXCEPT ![p] = "open"]
              /\ renamed' = [renamed EXCEPT ![p] = TRUE]
              /\ UNCHANGED <<result, file>>
           \/ /\ Fail(p, "rename")
              /\ UNCHANGED renamed
              /\ \/ links' = [q \in DOMAIN links \ {t} |-> links[q]]
                 \/ links' = links
    /\ data' = Reclaim(links', file', data)
    /\ UNCHANGED <<url, fileName, body, flushed, netCalls, fsCreates, trigger, started, fetched,
                   dirExists>>
    /\ DownloadOnly

\* InstallOrOpen returning Ok whether or not the installer or opener started
InstallOrOpenIgnoringFailure(p) ==
    /\ pc[p] = "open"
    /\ LET f == FinalPath(fileName[p])
           kind == IF IsWindowsMsi(platform, fileName[p]) THEN "msiexec" ELSE "open_path"
       IN  /\ \E started_ok \in BOOLEAN :
                trigger' = [trigger EXCEPT ![p] =
                              Append(@, [kind |-> kind, path |-> f, ok |-> started_ok])]
           /\ pc' = [pc EXCEPT ![p] = "done"]
           /\ result' = [result EXCEPT ![p] = OkResult(f)]
           /\ UNCHANGED file
    /\ UNCHANGED <<url, fileName, renamed, body, flushed, netCalls, fsCreates, started, fetched,
                   dirExists, links, data>>
    /\ DownloadOnly

\* lines 156-177: msiexec for an msi on Windows, the default handler otherwise
InstallOrOpen(p) ==
    /\ pc[p] = "open"
    /\ LET f == FinalPath(fileName[p])
           kind == IF IsWindowsMsi(platform, fileName[p]) THEN "msiexec" ELSE "open_path"
       IN  \/ /\ trigger' = [trigger EXCEPT ![p] =
                                Append(@, [kind |-> kind, path |-> f, ok |-> TRUE])]
              /\ pc' = [pc EXCEPT ![p] = "done"]
              /\ result' = [result EXCEPT ![p] = OkResult(f)]
              /\ UNCHANGED file
           \/ /\ trigger' = [trigger EXCEPT ![p] =
                                Append(@, [kind |-> kind, path |-> f, ok |-> FALSE])]
              /\ Fail(p, IF kind = "msiexec" THEN "spawn" ELSE "open")
    /\ UNCHANGED <<url, fileName, renamed, body, flushed, netCalls, fsCreates, started, fetched,
                   dirExists, links, data>>
    /\ DownloadOnly

\* the command has returned; the slot is free for the next invocation
Return(p) ==
    /\ pc[p] = "done"
    /\ pc' = [pc EXCEPT ![p] = "idle"]
    /\ url' = [url EXCEPT ![p] = UrlTrusted]
    /\ fileName' = [fileName EXCEPT ![p] = FallbackName]
    /\ body' = [body EXCEPT ![p] = <<>>]
    /\ flushed' = [flushed EXCEPT ![p] = FALSE]
    /\ renamed' = [renamed EXCEPT ![p] = FALSE]
    /\ result' = [result EXCEPT ![p] = NoResult]
    /\ netCalls' = [netCalls EXCEPT ![p] = 0]
    /\ fsCreates' = [fsCreates EXCEPT ![p] = 0]
    /\ trigger' = [trigger EXCEPT ![p] = <<>>]
    /\ UNCHANGED <<file, started, fetched, dirExists, links, data>>
    /\ DownloadOnly

InitGate ==
    /\ gateUrl = UrlTrusted
    /\ gateResult = "pending"

InitDownload ==
    /\ pc = [p \in Procs |-> "idle"]
    /\ url = [p \in Procs |-> UrlTrusted]
    /\ fileName = [p \in Procs |-> FallbackName]
    /\ file = [p \in Procs |-> NoFile]
    /\ body = [p \in Procs |-> <<>>]
    /\ flushed = [p \in Procs |-> FALSE]
    /\ renamed = [p \in Procs |-> FALSE]
    /\ result = [p \in Procs |-> NoResult]
    /\ netCalls = [p \in Procs |-> 0]
    /\ fsCreates = [p \in Procs |-> 0]
    /\ trigger = [p \in Procs |-> <<>>]
    /\ started = 0
    /\ fetched = {}
    /\ dirExists = FALSE
    /\ links = [q \in {} |-> 0]
    /\ data = [i \in {} |-> <<>>]

---------------------------------------------------------------------------
(* Version probes: lines 289-343 and 391-435                               *)

\* \d of the regex crate, on the characters of the model's alphabet
Digits == {"0", "1", "2", "3", "4", "5", "6", "7", "8", "9"}
\* \w: letters, digits and the underscore
WordChars ==
    Digits \cup DOMAIN ToLowerTable \cup {ToLowerTable[k] : k \in DOMAIN ToLowerTable} \cup {"_"}
\* [\w.]
TagChars == WordChars \cup {"."}

\* the last index of the longest run of characters of one class starting at i
\* (i - 1 when s[i] is not of the class)
RunEnd(s, i, class) ==
    LET stop == {k \in i..Len(s) : s[k] \notin class}
    IN  IF stop = {} THEN Len(s) ELSE (CHOOSE k \in stop : \A j \in stop : k <= j) - 1

\* MatchAt without the optional group (-[\w.]+)?
MatchAtNoTag(s, i) ==
    LET e1 == RunEnd(s, i, Digits)
        e2 == RunEnd(s, e1 + 2, Digits)
        e3 == RunEnd(s, e2 + 2, Digits)
    IN  IF e1 < i \/ e1 + 1 > Len(s) \/ s[e1 + 1] # "." THEN 0
        ELSE IF e2 < e1 + 2 \/ e2 + 1 > Len(s) \/ s[e2 + 1] # "." THEN 0
        ELSE IF e3 < e2 + 2 THEN 0
        ELSE e3

\* the end of the match of \d+\.\d+\.\d+(-[\w.]+)? anchored at i, 0 for none
MatchAt(s, i) ==
    LET e1 == RunEnd(s, i, Digits)
        e2 == RunEnd(s, e1 + 2, Digits)
        e3 == RunEnd(s, e2 + 2, Digits)
        e4 == RunEnd(s, e3 + 2, TagChars)
    IN  IF e1 < i \/ e1 + 1 > Len(s) \/ s[e1 + 1] # "." THEN 0
        ELSE IF e2 < e1 + 2 \/ e2 + 1 > Len(s) \/ s[e2 + 1] # "." THEN 0
        ELSE IF e3 < e2 + 2 THEN 0
        ELSE IF e3 + 1 <= Len(s) /\ s[e3 + 1] = "-" /\ e4 >= e3 + 2 THEN e4
        ELSE e3

\* extract_version, lines 290-296: the leftmost match, or raw itself
extract_version(raw) ==
    LET starts == {i \in 1..Len(raw) : MatchAt(raw, i) > 0}
    IN  IF starts = {} THEN raw
        ELSE LET i == CHOOSE k \in starts : \A j \in starts : k <= j
             IN  SubSeq(raw, i, MatchAt(raw, i))

\* the fixed "not installed or not executable" message of lines 325, 334 and
\* 434, one element per character of the message
NotInstalledMsg == <<"wei", "an", "zhuang", "huo", "wu", "fa", "zhi", "xing">>
\* e.to_string() of a spawn error
SpawnErrMsg == <<"E", "N", "O", "E", "N", "T">>

\* what Command::output() gives: Err, or the exit status and the two streams
SpawnErr == [status |-> "spawn_err", stdout |-> <<>>, stderr |-> <<>>]
Exited(ok, out, err) ==
    [status |-> IF ok THEN "exit_ok" ELSE "exit_fail", stdout |-> out, stderr |-> err]

\* a (Option<String>, Option<String>) pair
Pair(v, e) == [version |-> v, error |-> e]

\* try_get_version reporting a non-empty stderr as the error of a successful run
try_get_version_with_stderr(output) ==
    IF output.status = "spawn_err" THEN Pair(None, Some(SpawnErrMsg))
    ELSE LET stdout == Trim(output.stdout)
             stderr == Trim(output.stderr)
         IN  IF output.status = "exit_ok"
             THEN LET raw == IF stdout = <<>> THEN stderr ELSE stdout
                  IN  IF raw = <<>> THEN Pair(None, Some(NotInstalledMsg))
                      ELSE Pair(Some(extract_version(raw)),
                                IF stderr = <<>> THEN None ELSE Some(stderr))
             ELSE LET err == IF stderr = <<>> THEN stdout ELSE stderr
                  IN  Pair(None, Some(IF err = <<>> THEN NotInstalledMsg ELSE err))

\* try_get_version, lines 318-342, after the shell ran "{tool} --version"
try_get_version(output) ==
    IF output.status = "spawn_err" THEN Pair(None, Some(SpawnErrMsg))
    ELSE LET stdout == Trim(output.stdout)
             stderr == Trim(output.stderr)
         IN  IF output.status = "exit_ok"
             THEN LET raw == IF stdout = <<>> THEN stderr ELSE stdout
                  IN  IF raw = <<>> THEN Pair(None, Some(NotInstalledMsg))
                      ELSE Pair(Some(extract_version(raw)), None)
             ELSE LET err == IF stderr = <<>> THEN stdout ELSE stderr
                  IN  Pair(None, Some(IF err = <<>> THEN NotInstalledMsg ELSE err))

\* ---- the candidate directories, lines 352-389
HomeDirs == <<".npm-global/bin", ".local/bin", "n/bin">>
SystemDirs(os) ==
    IF os = "macos" THEN <<"/opt/homebrew/bin", "/usr/local/bin">>
    ELSE IF os = "linux" THEN <<"/usr/local/bin", "/usr/bin">>
    ELSE <<"%APPDATA%/npm", "C:/Program Files/nodejs">>

\* search_paths: the fixed directories, then one bin directory per node
\* version found under ~/.nvm/versions/node
SearchPaths(os, nvmCount) ==
    [i \in 1..Len(HomeDirs) |-> [kind |-> "static", dir |-> HomeDirs[i]]]
    \o [i \in 1..Len(SystemDirs(os)) |-> [kind |-> "static", dir |-> SystemDirs(os)[i]]]
    \o [i \in 1..nvmCount |-> [kind |-> "nvm", dir |-> i]]

\* what a candidate directory holds: no executable, or one and what running
\* it with --version gives
Absent == [exists |-> FALSE, run |-> SpawnErr]
Present(output) == [exists |-> TRUE, run |-> output]

\* ProbeVersion without the test of the exit status of line 424
ProbeVersionAnyExit(output) ==
    IF output.status = "spawn_err" THEN None
    ELSE LET stdout == Trim(output.stdout)
             stderr == Trim(output.stderr)
             raw == IF stdout = <<>> THEN stderr ELSE stdout
         IN  IF raw # <<>> THEN Some(extract_version(raw)) ELSE None

\* lines 421-429: the version of a probe that exited successfully with
\* non-empty output, None for any other probe
ProbeVersion(output) ==
    IF output.status = "spawn_err" THEN None
    ELSE LET stdout == Trim(output.stdout)
             stderr == Trim(output.stderr)
         IN  IF output.status = "exit_ok"
             THEN LET raw == IF stdout = <<>> THEN stderr ELSE stdout
                  IN  IF raw # <<>> THEN Some(extract_version(raw)) ELSE None
             ELSE None

\* NotFoundPair carrying the error of a failed spawn
NotFoundPairSpawnErr == Pair(None, Some(SpawnErrMsg))

\* line 434: what the scan returns when the loop ends without a return
NotFoundPair == Pair(None, Some(NotInstalledMsg))

\* ScanTurn returning at the first existing executable, whatever running it gives
ScanTurnFirstExisting(found) ==
    IF ~found.exists THEN None
    ELSE IF IsSome(ProbeVersion(found.run)) THEN ProbeVersion(found.run)
    ELSE Some(Trim(found.run.stdout))

\* lines 392-431, one turn of the loop over search_paths: Some(version) when
\* the turn returns, None when the loop goes on to the next directory
ScanTurn(found) ==
    IF found.exists THEN ProbeVersion(found.run) ELSE None

\* scan_cli_version, lines 391-434, from directory i on: the pair returned, the
\* index of the directory it comes from (0 for none) and the directories
\* whose executable was invoked
RECURSIVE ScanFrom(_, _, _)
ScanFrom(env, i, ran) ==
    IF i > Len(env)
    THEN [pair |-> NotFoundPair, src |-> 0, invoked |-> ran]
    ELSE LET ran2 == IF env[i].exists THEN Append(ran, i) ELSE ran
             got == ScanTurn(env[i])
         IN  IF IsSome(got)
             THEN [pair |-> Pair(got, None), src |-> i, invoked |-> ran2]
             ELSE ScanFrom(env, i + 1, ran2)

\* scan_cli_version starting at the second directory of search_paths
scan_cli_version_from_second(env) == ScanFrom(env, 2, <<>>)

scan_cli_version(env) == ScanFrom(env, 1, <<>>)

---------------------------------------------------------------------------
(* Registry Client: lines 271-287                                          *)

\* serde_json::Value, as far as the lookup tells values apart
JString(text) == [type |-> "string", text |-> text]
JNumber == [type |-> "number"]
JNull == [type |-> "null"]
JObject(fields) == [type |-> "object", fields |-> fields]

\* Value::get(key): a member of an object, None for anything else
JsonGet(v, key) ==
    IF v.type = "object" /\ key \in DOMAIN v.fields THEN Some(v.fields[key]) ELSE None

\* Value::as_str
JsonAsStr(v) == IF v.type = "string" THEN Some(v.text) ELSE None

\* what send() and json() give: a transport error, a body that is not JSON,
\* or a JSON value
TransportErr == [kind |-> "transport_err"]
NotJson == [kind |-> "not_json"]
JsonBody(v) == [kind |-> "json", value |-> v]

\* fetch_npm_latest_version, lines 272-287
fetch_npm_latest_version(outcome) ==
    IF outcome.kind = "transport_err" THEN None
    ELSE IF outcome.kind = "json"
         THEN LET tags == JsonGet(outcome.value, "dist-tags")
                  v == IF IsSome(tags) THEN JsonGet(tags.some, "latest") ELSE None
              IN  IF IsSome(v) THEN JsonAsStr(v.some) ELSE None
         ELSE None

LatestText == <<"3", ".", "0", ".", "0">>
EmptyObject == JObject([k \in {} |-> JNull])
WithDistTags(v) == JObject([k \in {"dist-tags", "name"} |-> IF k = "name" THEN JString(<<"n">>) ELSE v])
WithLatest(v) == WithDistTags(JObject([k \in {"latest"} |-> v]))

RegistryOutcomes ==
    {TransportErr, NotJson, JsonBody(JString(LatestText)), JsonBody(EmptyObject),
     JsonBody(WithDistTags(JString(LatestText))), JsonBody(WithDistTags(EmptyObject)),
     JsonBody(WithLatest(JNumber)), JsonBody(WithLatest(JNull)),
     JsonBody(WithLatest(JString(LatestText)))}

NoOutcome == [kind |-> "none"]

---------------------------------------------------------------------------
(* get_tool_versions: lines 227-269                                        *)

\* tools, line 229
Tools == <<"claude", "codex", "gemini">>

\* directories found under ~/.nvm/versions/node
MaxNvmDirs == 1

TextEmpty == <<>>
TextNewline == <<"\n">>
TextV1 == <<"1", ".", "2", ".", "3", "\n">>
TextV2 == <<"v", "2", ".", "0", ".", "1", "-", "b", " ">>
TextV9 == <<"v", "9">>
TextNo == <<"n", "o">>

\* what running "{tool} --version" through the shell may give
DirectOutputs ==
    {SpawnErr,
     Exited(FALSE, TextEmpty, TextNo), Exited(FALSE, TextV9, TextEmpty),
     Exited(FALSE, TextEmpty, TextEmpty), Exited(FALSE, TextV1, TextNewline),
     Exited(TRUE, TextEmpty, TextEmpty), Exited(TRUE, TextNewline, TextEmpty),
     Exited(TRUE, TextV1, TextEmpty), Exited(TRUE, TextEmpty, TextV2),
     Exited(TRUE, TextV9, TextNo)}

\* what a candidate directory may hold
DirOutcomes ==
    {Absent, Present(SpawnErr),
     Present(Exited(FALSE, TextEmpty, TextNo)), Present(Exited(FALSE, TextV1, TextEmpty)),
     Present(Exited(TRUE, TextNewline, TextEmpty)),
     Present(Exited(TRUE, TextV1, TextEmpty)), Present(Exited(TRUE, TextEmpty, TextV2))}

NoLocal == Pair(None, None)

\* ToolVersion reporting a failed registry lookup as the tool's error
ToolVersionErrOnNoLatest(name, pair, latestVersion) ==
    [name |-> name,
     version |-> IF IsSome(latestVersion) THEN pair.version ELSE None,
     latest_version |-> latestVersion,
     error |-> IF IsSome(latestVersion) THEN pair.error ELSE Some(NotInstalledMsg)]

\* ToolVersion { name, version, latest_version, error }, lines 260-265
ToolVersion(name, pair, latestVersion) ==
    [name |-> name, version |-> pair.version, latest_version |-> latestVersion,
     error |-> pair.error]

\* Push leaving out the tools without a local version
PushSkippingMissing(vec, report) ==
    IF IsSome(report.version) THEN Append(vec, report) ELSE vec

\* results.push(..), line 260
Push(vec, report) == Append(vec, report)

\* lines 233-236: the client is built before the loop; `?` returns its error
BuildVersionClient ==
    /\ vpc = "client"
    /\ \/ /\ vpc' = "direct"
          /\ UNCHANGED vresult
       \/ /\ vpc' = "done"
          /\ vresult' = ErrResult("client")
    /\ UNCHANGED <<toolIdx, direct, searchPaths, scanIdx, local, localSrc, invoked, latest,
                   regOutcome, results>>
    /\ VersionsOnly

\* DirectAttempt entering scan_cli_version whatever the direct attempt gave
DirectAttemptAlwaysScan ==
    /\ vpc = "direct"
    /\ \E output \in DirectOutputs :
        LET direct_result == try_get_version(output)
        IN  /\ direct' = direct_result
            /\ local' = direct_result
            /\ vpc' = "scan"
            /\ localSrc' = "none"
            /\ \E n \in 0..MaxNvmDirs : searchPaths' = SearchPaths(platform, n)
            /\ scanIdx' = 1
    /\ UNCHANGED <<toolIdx, invoked, latest, regOutcome, results, vresult>>
    /\ VersionsOnly

\* lines 242-248: the direct attempt; without a version, scan_cli_version is
\* entered and builds search_paths (lines 349-389)
DirectAttempt ==
    /\ vpc = "direct"
    /\ \E output \in DirectOutputs :
        LET direct_result == try_get_version(output)
        IN  /\ direct' = direct_result
            /\ local' = direct_result
            /\ IF IsSome(direct_result.version)
               THEN /\ vpc' = "fetch"
                    /\ localSrc' = "direct"
                    /\ UNCHANGED <<searchPaths, scanIdx>>
               ELSE /\ vpc' = "scan"
                    /\ localSrc' = "none"
                    /\ \E n \in 0..MaxNvmDirs : searchPaths' = SearchPaths(platform, n)
                    /\ scanIdx' = 1
    /\ UNCHANGED <<toolIdx, invoked, latest, regOutcome, results, vresult>>
    /\ VersionsOnly

\* lines 392-431: one turn of the loop over search_paths
ScanDirectory ==
    /\ vpc = "scan"
    /\ scanIdx <= Len(searchPaths)
    /\ \E found \in DirOutcomes :
        /\ invoked' = IF found.exists THEN Append(invoked, scanIdx) ELSE invoked
        /\ IF IsSome(ScanTurn(found))
           THEN /\ local' = Pair(ScanTurn(found), None)
                /\ localSrc' = "scan"
                /\ vpc' = "fetch"
                /\ searchPaths' = <<>>
                /\ scanIdx' = 0
           ELSE /\ scanIdx' = scanIdx + 1
                /\ UNCHANGED <<local, localSrc, vpc, searchPaths>>
    /\ UNCHANGED <<toolIdx, direct, latest, regOutcome, results, vresult>>
    /\ VersionsOnly

\* line 434: the loop ended without a return
ScanNotFound ==
    /\ vpc = "scan"
    /\ scanIdx > Len(searchPaths)
    /\ local' = NotFoundPair
    /\ localSrc' = "scan"
    /\ vpc' = "fetch"
    /\ searchPaths' = <<>>
    /\ scanIdx' = 0
    /\ UNCHANGED <<toolIdx, direct, invoked, latest, regOutcome, results, vresult>>
    /\ VersionsOnly

\* lines 253-258: every tool of the list has a package, so a request is made
FetchLatest ==
    /\ vpc = "fetch"
    /\ \E outcome \in RegistryOutcomes :
        /\ regOutcome' = outcome
        /\ latest' = fetch_npm_latest_version(outcome)
    /\ vpc' = "push"
    /\ UNCHANGED <<toolIdx, direct, searchPaths, scanIdx, local, localSrc, invoked, results,
                   vresult>>
    /\ VersionsOnly

\* lines 260-268: the report is pushed; after the last tool, Ok(results)
PushResult ==
    /\ vpc = "push"
    /\ results' = Push(results, ToolVersion(Tools[toolIdx], local, latest))
    /\ IF toolIdx = Len(Tools)
       THEN /\ vpc' = "done"
            /\ vresult' = [ok |-> TRUE]
            /\ UNCHANGED toolIdx
       ELSE /\ vpc' = "direct"
            /\ toolIdx' = toolIdx + 1
            /\ UNCHANGED vresult
    /\ searchPaths' = <<>>
    /\ scanIdx' = 0
    /\ direct' = NoLocal
    /\ local' = NoLocal
    /\ localSrc' = "none"
    /\ invoked' = <<>>
    /\ latest' = None
    /\ regOutcome' = NoOutcome
    /\ VersionsOnly

InitVersions ==
    /\ vpc = "client"
    /\ toolIdx = 1
    /\ searchPaths = <<>>
    /\ scanIdx = 0
    /\ direct = NoLocal
    /\ local = NoLocal
    /\ localSrc = "none"
    /\ invoked = <<>>
    /\ latest = None
    /\ regOutcome = NoOutcome
    /\ results = <<>>
    /\ vresult = NoResult

---------------------------------------------------------------------------
(* The Trust Gate and the fallback scan taken alone                        *)

\* lines 95-112 applied to one url
RunGate ==
    /\ gateResult = "pending"
    /\ gateResult' = Authorize(gateUrl)
    /\ UNCHANGED <<gateUrl, platform, dlVars, verVars, scanVars, pureVars>>

\* what a candidate directory may hold, for the scan taken alone
EnvOutcomes ==
    {Absent, Present(SpawnErr), Present(Exited(FALSE, TextV1, TextEmpty)),
     Present(Exited(TRUE, TextNewline, TextEmpty)), Present(Exited(TRUE, TextV1, TextEmpty)),
     Present(Exited(TRUE, TextEmpty, TextV2))}

ScanEnvs(os) ==
    UNION {[1..Len(SearchPaths(os, n)) -> EnvOutcomes] : n \in 0..MaxNvmDirs}

NoEnv == <<>>

\* scan_cli_version applied to one state of the candidate directories
RunScan ==
    /\ scanOut = NoResult
    /\ scanOut' = scan_cli_version(scanEnv)
    /\ UNCHANGED <<scanEnv, platform, gateVars, dlVars, verVars, pureVars>>

InitScan ==
    /\ scanEnv = NoEnv
    /\ scanOut = NoResult

\* the longest tail of a raw file name, the passes of the sanitizer over one
\* name, the longest raw probe output
MaxTail == 3
MaxPasses == 2
MaxVerLen == 5

\* n times the letter a
Pad(n) == [i \in 1..n |-> "a"]

\* the characters raw file names are made of: a letter, whitespace, the dot
\* and the characters of line 55
NameAlphabet == {"a", " ", ".", "/", "\\", ":", "*", "?", "\"", "<", ">", "|"}

RECURSIVE TextsUpTo(_, _)
TextsUpTo(alphabet, n) ==
    IF n = 0 THEN {<<>>}
    ELSE LET shorter == TextsUpTo(alphabet, n - 1)
         IN  shorter \cup {Append(t, c) : t \in {u \in shorter : Len(u) = n - 1}, c \in alphabet}

\* raw names: short ones, and ones that reach the cap of line 64 or pass it
PadLens == {0, NameCap - 2, NameCap - 1, NameCap}
NameInputs == {Pad(k) \o t : k \in PadLens, t \in TextsUpTo(NameAlphabet, MaxTail)}

\* sanitize_download_file_name applied to the raw name, then to what it returned
RunSanitize ==
    /\ Len(nameOut) < MaxPasses
    /\ nameOut' = Append(nameOut, sanitize_download_file_name(platform,
                        IF nameOut = <<>> THEN nameRaw ELSE nameOut[Len(nameOut)]))
    /\ UNCHANGED <<nameRaw, verRaw, verOut, platform, gateVars, dlVars, verVars, scanVars>>

\* the examples of raw probe output: "v1.2.3 (build 4)", "1.2.3-beta.1" and
\* "no version here"
VerBuild4 ==
    <<"v", "1", ".", "2", ".", "3", " ", "(", "b", "u", "i", "l", "d", " ", "4", ")">>
VerBeta1 == <<"1", ".", "2", ".", "3", "-", "b", "e", "t", "a", ".", "1">>
VerNone == <<"n", "o", " ", "v", "e", "r", "s", "i", "o", "n", " ", "h", "e", "r", "e">>

VerAlphabet == {"1", "2", ".", "-", "b", " "}
VerInputs == TextsUpTo(VerAlphabet, MaxVerLen) \cup {VerBuild4, VerBeta1, VerNone}

\* extract_version applied to one raw output
RunExtract ==
    /\ verOut = NoResult
    /\ verOut' = Some(extract_version(verRaw))
    /\ UNCHANGED <<verRaw, nameRaw, nameOut, platform, gateVars, dlVars, verVars, scanVars>>

InitPure ==
    /\ nameRaw = <<>>
    /\ nameOut = <<>>
    /\ verRaw = <<>>
    /\ verOut = NoResult

---------------------------------------------------------------------------
(* Specifications                                                          *)

\* the download command, invoked concurrently and repeatedly
Init ==
    /\ platform \in Platforms
    /\ InitGate /\ InitDownload /\ InitVersions /\ InitScan /\ InitPure

Next ==
    \E p \in Procs :
        \/ Invoke(p) \/ CreateCacheDir(p) \/ BuildClient(p) \/ SendRequest(p)
        \/ CreateTemp(p) \/ StreamChunk(p) \/ FlushAndClose(p) \/ RenameToFinal(p)
        \/ InstallOrOpen(p) \/ Return(p)

Spec == Init /\ [][Next]_vars

\* the Trust Gate on every url of GateUrls
InitGateAlone ==
    /\ platform \in Platforms
    /\ gateUrl \in GateUrls
    /\ gateResult = "pending"
    /\ InitDownload /\ InitVersions /\ InitScan /\ InitPure

NextGate == RunGate

SpecGate == InitGateAlone /\ [][NextGate]_vars

\* get_tool_versions
NextVersions ==
    \/ BuildVersionClient \/ DirectAttempt \/ ScanDirectory \/ ScanNotFound
    \/ FetchLatest \/ PushResult

SpecVersions == Init /\ [][NextVersions]_vars

\* scan_cli_version on every state of the candidate directories
InitScanAlone ==
    /\ platform \in Platforms
    /\ scanEnv \in ScanEnvs(platform)
    /\ scanOut = NoResult
    /\ InitGate /\ InitDownload /\ InitVersions /\ InitPure

NextScan == RunScan

SpecScan == InitScanAlone /\ [][NextScan]_vars

\* sanitize_download_file_name on every raw name of NameInputs
InitNamesAlone ==
    /\ platform \in Platforms
    /\ nameRaw \in NameInputs
    /\ nameOut = <<>>
    /\ verRaw = <<>>
    /\ verOut = NoResult
    /\ InitGate /\ InitDownload /\ InitVersions /\ InitScan

NextNames == RunSanitize

SpecNames == InitNamesAlone /\ [][NextNames]_vars

\* extract_version on every raw output of VerInputs
InitExtractAlone ==
    /\ platform \in Platforms
    /\ verRaw \in VerInputs
    /\ verOut = NoResult
    /\ nameRaw = <<>>
    /\ nameOut = <<>>
    /\ InitGate /\ InitDownload /\ InitVersions /\ InitScan

NextExtract == RunExtract

SpecExtract == InitExtractAlone /\ [][NextExtract]_vars

---------------------------------------------------------------------------
(* Properties                                                              *)

AllowedSuffixes == {SuffixCjjd19, Suffix123pan, Suffix123865}

\* the url passes every check of the gate: it parses, its scheme is http or
\* https, it has a host and the lowercased host ends with an allowed suffix
GateAccepts(u) ==
    LET r == ParseUrl(u)
    IN  /\ r # ParseErr
        /\ r.scheme \in {SchemeHttp, SchemeHttps}
        /\ IsSome(r.host)
        /\ \E suffix \in AllowedSuffixes : EndsWith(ToLowercase(r.host.some), suffix)

\* the first check the url fails, in the order invalid URL, unsupported
\* scheme, missing host, untrusted host
GateVerdict(u) ==
    LET r == ParseUrl(u)
    IN  IF r = ParseErr THEN "invalid_url"
        ELSE IF r.scheme \notin {SchemeHttp, SchemeHttps} THEN "unsupported_scheme"
        ELSE IF ~IsSome(r.host) THEN "missing_host"
        ELSE IF ~GateAccepts(u) THEN "untrusted_host"
        ELSE "ok"

Running(p) == pc[p] # "idle"
Returned(p) == pc[p] = "done"
OthersIdle(p) == \A q \in Procs \ {p} : pc[q] = "idle"

\* C1: an invocation whose url fails a check of the Trust Gate sends no HTTP
\* request and creates no directory and no file: it has returned the gate's
\* rejection with both counts at zero; https://evil.com/pkg.msi is rejected
\* as an untrusted host.
C1_GateBeforeAnyEffect ==
    \A p \in Procs :
        /\ (Running(p) /\ ~GateAccepts(url[p])) =>
              /\ netCalls[p] = 0
              /\ fsCreates[p] = 0
              /\ file[p] = NoFile
              /\ Returned(p)
              /\ result[p] = ErrResult(GateVerdict(url[p]))
        /\ (Running(p) /\ url[p] = UrlEvil) => result[p] = ErrResult("untrusted_host")
        /\ (/\ \A q \in Procs : Running(q) => ~GateAccepts(url[q])
            /\ started = Cardinality({q \in Procs : Running(q)}))
              => (~dirExists /\ DOMAIN links = {})

\* C1 witness: the evil.com download has returned its rejection without a
\* network call while another invocation has sent its request
C1_Witness ==
    \E p, q \in Procs :
        /\ Returned(p) /\ url[p] = UrlEvil /\ netCalls[p] = 0
        /\ result[p] = ErrResult("untrusted_host")
        /\ netCalls[q] = 1 /\ dirExists

\* C2: the gate accepts a url iff it parses, has scheme http or https, has a
\* host and the lowercased host ends with an allowed suffix; any other url
\* gets the reason of the first failed check.
C2_GateAcceptsExactly ==
    gateResult # "pending" =>
        /\ gateResult = GateVerdict(gateUrl)
        /\ (gateResult = "ok") = GateAccepts(gateUrl)
        /\ gateResult \in {"ok", "invalid_url", "unsupported_scheme", "missing_host",
                           "untrusted_host"}

\* C2 witness: HTTPS://CDN.CJJD19.COM is accepted, the host being compared in
\* lower case
C2_Witness ==
    /\ gateResult = "ok"
    /\ gateUrl.scheme = SchemeHttpsUpper
    /\ gateUrl.host = HostCdnUpper \o Dot \o BaseCjjd19Upper

\* C3 as claimed: when the command has returned and no other invocation is
\* running, its temp file <sanitized>.partial does not exist.
C3_TempGoneOnReturn ==
    \A p \in Procs :
        (Returned(p) /\ OthersIdle(p)) => TempPath(fileName[p]) \notin DOMAIN links

\* C4 as claimed: when the command has returned an error and no other
\* invocation is running, its final file does not exist.
C4_NoFinalAfterError ==
    \A p \in Procs :
        (Returned(p) /\ ~result[p].ok /\ OthersIdle(p)) =>
            FinalPath(fileName[p]) \notin DOMAIN links

\* the final paths of the cache directory: those that are no temp path
IsFinalPath(q) == ~EndsWith(q, PartialSuffix)

\* C5 as claimed: whenever a final file exists, no invocation holds it open
\* for writing and its contents are the whole body of a finished fetch.
C5_FinalNeverPartial ==
    \A q \in DOMAIN links :
        IsFinalPath(q) =>
            /\ \A p \in Procs : file[p] # NoFile => file[p].ino # links[q]
            /\ data[links[q]] \in fetched

\* C6 as claimed: when the command returns success, the file was flushed and
\* closed and the final file holds the chunks of its response body in order.
C6_FinalHoldsBody ==
    \A p \in Procs :
        (Returned(p) /\ result[p].ok) =>
            /\ flushed[p]
            /\ file[p] = NoFile
            /\ FinalPath(fileName[p]) \in DOMAIN links
            /\ data[links[FinalPath(fileName[p])]] = body[p]

ExactlyOne(pair) == IsSome(pair.version) # IsSome(pair.error)

\* C7: the local result of every report has exactly one of version and error
\* populated, and so has the local result of the tool being looked up once
\* the lookup is over.
C7_ExactlyOneOfVersionError ==
    /\ \A i \in 1..Len(results) :
          ExactlyOne([version |-> results[i].version, error |-> results[i].error])
    /\ vpc \in {"fetch", "push"} => ExactlyOne(local)

\* C7 witness: the reports are complete, with a version from the direct
\* attempt or the scan in one and an error in another
C7_Witness ==
    /\ vpc = "done"
    /\ \E i, j \in 1..Len(results) :
          /\ IsSome(results[i].version) /\ ~IsSome(results[i].error)
          /\ IsSome(results[j].error) /\ ~IsSome(results[j].version)

\* ---- the scan taken alone
ScanDone == scanOut # NoResult
ScanPaths == SearchPaths(platform, Len(scanEnv) - Len(HomeDirs) - Len(SystemDirs(platform)))
StaticIdx == {i \in 1..Len(scanEnv) : ScanPaths[i].kind = "static"}
NvmIdx == {i \in 1..Len(scanEnv) : ScanPaths[i].kind = "nvm"}
HasTool(i) == scanEnv[i].exists
\* the executable of directory i exits successfully with non-empty output
Usable(i) ==
    /\ scanEnv[i].exists
    /\ scanEnv[i].run.status = "exit_ok"
    /\ (Trim(scanEnv[i].run.stdout) # <<>> \/ Trim(scanEnv[i].run.stderr) # <<>>)
InBoth == (\E i \in StaticIdx : HasTool(i)) /\ (\E j \in NvmIdx : HasTool(j))

\* C8 as claimed: with the executable in a static directory and in a
\* version-manager directory, a version reported by the scan is the static
\* directory's.
C8_StaticAlwaysWins ==
    (ScanDone /\ InBoth /\ IsSome(scanOut.pair.version)) => scanOut.src \in StaticIdx

\* C8 amended: with the executable in a static directory and in a
\* version-manager directory, the version reported is that of the first
\* static directory whose executable exits successfully with non-empty
\* output; when no static directory has such an executable the scan goes on
\* to the version-manager directories.
C8_UsableStaticWins ==
    (ScanDone /\ InBoth) =>
        LET usableStatic == {i \in StaticIdx : Usable(i)}
            usableNvm == {j \in NvmIdx : Usable(j)}
        IN  /\ usableStatic # {} =>
                /\ scanOut.src \in usableStatic
                /\ \A i \in usableStatic : scanOut.src <= i
                /\ IsSome(scanOut.pair.version)
            /\ (usableStatic = {} /\ usableNvm # {}) =>
                /\ scanOut.src \in usableNvm
                /\ IsSome(scanOut.pair.version)
            /\ (usableStatic = {} /\ usableNvm = {}) => ~IsSome(scanOut.pair.version)

\* C8 witness: both a static and a version-manager executable give a
\* version, an earlier static one fails, and the scan reports the static one
C8_Witness ==
    /\ ScanDone
    /\ \E i, k \in StaticIdx, j \in NvmIdx :
          /\ k < i /\ HasTool(k) /\ ~Usable(k)
          /\ Usable(i) /\ Usable(j)
          /\ scanOut.src = i

\* C9: the reports are those of the tools in the order of the list, one each:
\* the k-th report is the k-th tool's, the loop is at the tool after the last
\* report, and Ok carries one report per tool.
C9_OneReportPerToolInOrder ==
    /\ Len(results) <= Len(Tools)
    /\ \A i \in 1..Len(results) : results[i].name = Tools[i]
    /\ vpc \in {"direct", "scan", "fetch", "push"} => Len(results) = toolIdx - 1
    /\ (vpc = "done" /\ vresult = [ok |-> TRUE]) => Len(results) = Len(Tools)
    /\ (vpc = "done" /\ vresult # [ok |-> TRUE]) =>
          (vresult = ErrResult("client") /\ results = <<>>)

\* C9 witness: no tool is installed and no registry lookup succeeds, and the
\* three reports are returned
C9_Witness ==
    /\ vpc = "done" /\ vresult = [ok |-> TRUE]
    /\ Len(results) = 3
    /\ \A i \in 1..Len(results) :
          ~IsSome(results[i].version) /\ ~IsSome(results[i].latest_version)

\* the registry answered with a JSON object whose "dist-tags" object has a
\* string under "latest"
HasLatestString(outcome) ==
    /\ outcome.kind = "json"
    /\ outcome.value.type = "object"
    /\ "dist-tags" \in DOMAIN outcome.value.fields
    /\ outcome.value.fields["dist-tags"].type = "object"
    /\ "latest" \in DOMAIN outcome.value.fields["dist-tags"].fields
    /\ outcome.value.fields["dist-tags"].fields["latest"].type = "string"

C10_LatestFromRegistryOnly ==
    vpc = "push" =>
        IF HasLatestString(regOutcome)
        THEN latest = Some(regOutcome.value.fields["dist-tags"].fields["latest"].text)
        ELSE latest = None

C10_NoCommandError ==
    \/ vresult \in {NoResult, [ok |-> TRUE]}
    \/ (regOutcome = NoOutcome /\ results = <<>>)

C10_Step ==
    /\ \A i \in 1..Len(results) : Len(results') >= i /\ results'[i] = results[i]
    /\ vpc = "fetch" => local' = local
    /\ vpc = "push" =>
          /\ Len(results') = Len(results) + 1
          /\ results'[Len(results')].version = local.version
          /\ results'[Len(results')].error = local.error
          /\ results'[Len(results')].latest_version = latest

\* C10: a failed registry lookup gives latest_version = None for its tool and
\* nothing else: latest_version is decided by the registry's answer alone,
\* the lookup changes neither the tool's local result nor a report already
\* made, the report carries the local result as it was before the lookup, and
\* the command returns no error once a lookup was made.
C10_RegistrySoftFail ==
    /\ [](C10_LatestFromRegistryOnly /\ C10_NoCommandError)
    /\ [][C10_Step]_vars

\* C10 witness: a report with a local version and a failed lookup next to a
\* report with a local error and a successful lookup
C10_Witness ==
    \E i, j \in 1..Len(results) :
        /\ IsSome(results[i].version) /\ results[i].latest_version = None
        /\ IsSome(results[j].error) /\ IsSome(results[j].latest_version)


---------------------------------------------------------------------------
(* Properties of sanitize_download_file_name and extract_version          *)

\* the text the i-th pass of the sanitizer was given
PassInput(i) == IF i = 1 THEN nameRaw ELSE nameOut[i - 1]

\* C11: sanitizing an already sanitized name returns the same name, for every
\* raw name, the names longer than the cap and the names with whitespace
\* around the cut included.
C11_Idempotent ==
    Len(nameOut) >= 2 => nameOut[2] = nameOut[1]

\* the characters / \ : * ? " < > |
C12_Forbidden == {"/", "\\", ":", "*", "?", "\"", "<", ">", "|"}

\* an empty name, a name of whitespace only, a name without a final segment
C12_Degenerate(raw) ==
    \/ raw = <<>>
    \/ \A i \in 1..Len(raw) : raw[i] \in {" ", "\t", "\n"}
    \/ \A i \in 1..Len(raw) : raw[i] = "/"
    \/ raw \in {<<".">>, <<".", ".">>}
    \/ Len(raw) >= 3 /\ SubSeq(raw, Len(raw) - 2, Len(raw)) = <<"/", ".", ".">>

\* C12: the sanitized name holds none of the forbidden characters, has at
\* most 120 characters and is never empty; an empty, whitespace-only or
\* otherwise degenerate raw name gives the fallback name.
C12_CleanCappedNonEmpty ==
    \A i \in 1..Len(nameOut) :
        LET out == nameOut[i]
        IN  /\ \A k \in 1..Len(out) : out[k] \notin C12_Forbidden
            /\ Len(out) <= 120
            /\ Len(out) >= 1
            /\ C12_Degenerate(PassInput(i)) =>
                   out = <<"a", "i", "c", "o", "d", "e", "w", "i", "t", "h", "-",
                           "u", "p", "d", "a", "t", "e", ".", "b", "i", "n">>

\* a raw name longer than the cap with a forbidden character before the cut
\* has been sanitized: the name returned is cut at the cap, the character gone
C12_Witness ==
    /\ Len(nameOut) >= 1
    /\ Len(nameRaw) > 120
    /\ \E k \in 1..120 : nameRaw[k] = "?"
    /\ Len(nameOut[1]) = 120
    /\ \E k \in 1..120 : nameOut[1][k] = "_"
    /\ \A k \in 1..120 : nameOut[1][k] # "?"

\* C19: the sanitized name is one ordinary path component: not ".", not ".."
\* and without a path separator, so that the final path and the temp path
\* are direct children of the cache directory.
C19_SingleComponent ==
    \A i \in 1..Len(nameOut) :
        /\ nameOut[i] \notin {<<".">>, <<".", ".">>}
        /\ \A k \in 1..Len(nameOut[i]) : nameOut[i][k] \notin {"/", "\\"}

\* a non-empty run of digits
C20_IsDigits(s) ==
    Len(s) >= 1 /\ \A k \in 1..Len(s) : s[k] \in {"0", "1", "2", "3", "4", "5", "6", "7", "8", "9"}

\* digits.digits.digits
C20_IsCore(s) ==
    \E i, j \in 1..Len(s) :
        /\ i < j /\ s[i] = "." /\ s[j] = "."
        /\ C20_IsDigits(SubSeq(s, 1, i - 1))
        /\ C20_IsDigits(SubSeq(s, i + 1, j - 1))
        /\ C20_IsDigits(SubSeq(s, j + 1, Len(s)))

\* digits.digits.digits, optionally followed by a hyphen and word/dot characters
C20_IsVersion(s) ==
    \/ C20_IsCore(s)
    \/ \E k \in 1..Len(s) :
          /\ s[k] = "-"
          /\ C20_IsCore(SubSeq(s, 1, k - 1))
          /\ k < Len(s)
          /\ \A m \in (k + 1)..Len(s) : s[m] \in WordChars \cup {"."}

\* the substrings of raw that are versions, as <<first index, last index>>
C20_Matches(raw) ==
    {m \in (1..Len(raw)) \X (1..Len(raw)) :
        m[1] <= m[2] /\ C20_IsVersion(SubSeq(raw, m[1], m[2]))}

---------------------------------------------------------------------------
(* Properties of the install trigger                                       *)

IsOk(r) == "ok" \in DOMAIN r /\ r.ok
IsErr(r) == "ok" \in DOMAIN r /\ ~r.ok

\* C13: the command returns success only if the rename to the final path
\* succeeded and the installer or opener was started without error; the
\* filePath returned is the final path, never the temp path; a trigger that
\* fails is returned as an error.
C13_OkOnlyAfterWholePipeline ==
    \A p \in Procs :
        /\ IsOk(result[p]) =>
              /\ flushed[p] /\ renamed[p]
              /\ Len(trigger[p]) = 1 /\ trigger[p][1].ok
              /\ result[p].filePath = fileName[p]
              /\ result[p].filePath # fileName[p] \o <<".", "p", "a", "r", "t", "i", "a", "l">>
              /\ result[p].filePath \in DOMAIN links
        /\ (trigger[p] # <<>> /\ ~trigger[p][Len(trigger[p])].ok) => IsErr(result[p])

\* an invocation returned Ok after its trigger started; another returned the
\* error of a trigger that failed
C13_Witness ==
    \E p, q \in Procs :
        /\ IsOk(result[p]) /\ trigger[p] # <<>> /\ trigger[p][1].ok
        /\ IsErr(result[q]) /\ trigger[q] # <<>> /\ ~trigger[q][1].ok

\* the file name has the extension msi, in any case
C18_IsMsi(name) ==
    /\ Len(name) > 4
    /\ SubSeq(name, Len(name) - 3, Len(name)) \in
          {<<".">>} \X {"m", "M"} \X {"s", "S"} \X {"i", "I"}

\* the failures of the fetch: validation, client, request, HTTP status,
\* file creation, stream, write, flush and rename
C18_FetchFailures ==
    {"invalid_url", "unsupported_scheme", "missing_host", "untrusted_host", "create_dir",
     "client", "request", "status", "create_file", "read", "write", "flush", "rename"}

\* C18: per command the installer or opener is called at most once, only
\* after the rename succeeded and only with the final path, never the temp
\* path; no failing fetch calls either; on Windows with an msi extension (in
\* any case) the installer is spawned and the opener is not called, in every
\* other case the opener is called and no installer is spawned.
C18_TriggerOnceAfterRename ==
    \A p \in Procs :
        /\ Len(trigger[p]) <= 1
        /\ trigger[p] # <<>> =>
              /\ renamed[p]
              /\ trigger[p][1].path = fileName[p]
              /\ trigger[p][1].path # fileName[p] \o <<".", "p", "a", "r", "t", "i", "a", "l">>
              /\ trigger[p][1].kind =
                    IF platform = "windows" /\ C18_IsMsi(fileName[p])
                    THEN "msiexec" ELSE "open_path"
        /\ (IsErr(result[p]) /\ result[p].err \in C18_FetchFailures) => trigger[p] = <<>>

\* on Windows a download named q.MSI was handed to the installer
C18_Witness ==
    /\ platform = "windows"
    /\ \E p \in Procs :
          /\ fileName[p] = <<"q", ".", "M", "S", "I">>
          /\ renamed[p]
          /\ Len(trigger[p]) = 1
          /\ trigger[p][1].kind = "msiexec"


---------------------------------------------------------------------------
(* Properties of the local lookup                                          *)

\* the local lookup of the current tool has finished
LocalDone == vpc \in {"fetch", "push"}

\* C14: a report without a local version carries exactly the fixed "not
\* installed or not executable" message as its error: the error of the
\* failed direct attempt is dropped once the fallback scan has run.
C14_NoVersionMeansFixedMessage ==
    /\ \A i \in 1..Len(results) :
          ~IsSome(results[i].version) => results[i].error = Some(NotInstalledMsg)
    /\ (LocalDone /\ ~IsSome(local.version)) =>
          /\ local.error = Some(NotInstalledMsg)
          /\ ~IsSome(direct.version)

\* claude's direct attempt failed with a message of its own on stderr, the
\* scan found nothing, the registry answered: the report about to be pushed
\* has no version, the fixed message and a latest version
C14_Witness ==
    /\ vpc = "push"
    /\ Tools[toolIdx] = "claude"
    /\ direct = Pair(None, Some(TextNo))
    /\ local = Pair(None, Some(NotInstalledMsg))
    /\ IsSome(latest)

\* while and after the local lookup: a direct attempt that gave a version is
\* the local result and no scan has been made; one that gave none is followed
\* by the scan, whose result is the local result
C15_Inv ==
    /\ IsSome(direct.version) =>
          /\ LocalDone
          /\ localSrc = "direct" /\ local = direct
          /\ searchPaths = <<>> /\ scanIdx = 0 /\ invoked = <<>>
    /\ (LocalDone /\ ~IsSome(direct.version)) => localSrc = "scan"
    /\ vpc = "scan" => ~IsSome(direct.version)

\* the report pushed carries the local result
C15_Push ==
    results' # results =>
        LET report == results'[Len(results')]
        IN  /\ Len(results') = Len(results) + 1
            /\ report.version = local.version /\ report.error = local.error
            /\ IsSome(direct.version) => report.version = direct.version
            /\ ~IsSome(direct.version) => localSrc = "scan"

\* C15: the fallback scan runs if and only if the direct attempt gave no
\* version: after a direct attempt that gave a version no candidate directory
\* is inspected, no executable of one is invoked and the report carries that
\* version; after one that gave none the report carries the scan's result.
C15_ScanIffNoDirectVersion == []C15_Inv /\ [][C15_Push]_vars

\* a report carries the version of the direct attempt, a later one the
\* version found by the scan
C15_Witness ==
    /\ Len(results) >= 1
    /\ IsSome(results[1].version)
    /\ vpc = "push" /\ localSrc = "scan" /\ IsSome(local.version) /\ invoked # <<>>

\* the directories of the scan in which the executable exists
Existing == {i \in 1..Len(scanEnv) : HasTool(i)}
\* the directories whose executable exits successfully with non-empty output
UsableDirs == {i \in 1..Len(scanEnv) : Usable(i)}
Least(S) == CHOOSE i \in S : \A j \in S : i <= j
\* the indices of S in increasing order
RECURSIVE Ascending(_)
Ascending(S) == IF S = {} THEN <<>> ELSE <<Least(S)>> \o Ascending(S \ {Least(S)})

\* the version that running the executable of directory i prints
PrintedVersion(i) ==
    LET stdout == Trim(scanEnv[i].run.stdout)
        stderr == Trim(scanEnv[i].run.stderr)
    IN  extract_version(IF stdout = <<>> THEN stderr ELSE stdout)

\* C16 as claimed: the first directory in which the executable exists is the
\* only one whose executable is invoked, and its invocation alone decides the
\* result of the scan.
C16_StopsAtFirstExisting ==
    ScanDone =>
        IF Existing = {}
        THEN scanOut.invoked = <<>> /\ scanOut.pair = Pair(None, Some(NotInstalledMsg))
        ELSE /\ scanOut.invoked = <<Least(Existing)>>
             /\ scanOut.pair = IF Usable(Least(Existing))
                                THEN Pair(Some(PrintedVersion(Least(Existing))), None)
                                ELSE Pair(None, Some(NotInstalledMsg))

\* C16 amended: the scan goes through the directories in list order and
\* invokes the executable of each directory that has one, until one exits
\* successfully with non-empty output: the executables invoked are those of
\* the directories up to that one, in list order, and that invocation alone
\* decides the version; the executables of later directories are not invoked.
C16_InOrderUntilUsable ==
    ScanDone =>
        LET stop == IF UsableDirs = {} THEN Len(scanEnv) ELSE Least(UsableDirs)
        IN  /\ scanOut.invoked = Ascending({i \in Existing : i <= stop})
            /\ UsableDirs # {} =>
                  /\ scanOut.src = stop
                  /\ scanOut.pair = Pair(Some(PrintedVersion(stop)), None)
            /\ \A i, j \in 1..Len(ScanPaths) :
                  (ScanPaths[i].kind = "nvm" /\ ScanPaths[j].kind = "static") => j < i

\* the executable of an early directory exists and fails, a later one gives
\* a version and a still later one is never invoked
C16_Witness ==
    /\ ScanDone
    /\ \E i, j, k \in Existing :
          /\ i < j /\ j < k /\ ~Usable(i) /\ Usable(j)
          /\ scanOut.invoked = Ascending({m \in Existing : m <= j})
          /\ scanOut.src = j

\* C17: the scan returns a version if and only if some candidate directory
\* holds an executable that exits successfully with non-empty output (stdout,
\* or stderr when stdout is empty); the version is the one of the earliest
\* such directory; otherwise the scan returns the fixed error.
C17_VersionIffUsable ==
    ScanDone =>
        /\ IsSome(scanOut.pair.version) <=> UsableDirs # {}
        /\ UsableDirs # {} =>
              /\ scanOut.pair.version = Some(PrintedVersion(Least(UsableDirs)))
              /\ scanOut.pair.error = None
        /\ UsableDirs = {} => scanOut.pair = Pair(None, Some(NotInstalledMsg))

\* two directories give different versions, the earlier one on stderr only,
\* after a directory whose executable fails: the earlier version is returned
C17_Witness ==
    /\ ScanDone
    /\ \E h, i, j \in 1..Len(scanEnv) :
          /\ h < i /\ i < j
          /\ HasTool(h) /\ ~Usable(h)
          /\ Usable(i) /\ Usable(j) /\ \A k \in UsableDirs : i <= k
          /\ Trim(scanEnv[i].run.stdout) = <<>>
          /\ PrintedVersion(i) # PrintedVersion(j)
          /\ scanOut.pair.version = Some(PrintedVersion(i))

===========================================================================
